---- MODULE Spec2Model ----
(***************************************************************************)
(* Death-cases dashboards (src/app.py, src/app1.1.py, src/app_1.2.py) and  *)
(* the filtering / aggregation code they share.                            *)
(*                                                                         *)
(* A Streamlit dashboard is a script that is run again from the top every  *)
(* time a sidebar widget changes.  The state is the loaded DataFrame df,   *)
(* the widget values, and the module-level values the script computes from *)
(* them (fdf, daily, pivot, ...).  One action per widget: it changes the   *)
(* widget and runs the whole script again.                                 *)
(*                                                                         *)
(* Calendar dates are day numbers, day 1 being Saturday 2023-12-30, so     *)
(* (end - start).days is end - start.  Means and percentages are exact     *)
(* fractions [num, den].                                                   *)
(***************************************************************************)
EXTENDS Integers, Sequences, FiniteSets, TLC

\* ------------------------------------------------------------------ bounds
MaxRecs == 2
MaxDate == 2
MaxAge == 2
MaxAggRecs == 3
MaxAggDate == 3
MaxPivotRecs == 2
MaxTopN == 2
MaxSeriesLen == 5
MaxCount == 2
MaxWindow == 3
MaxCalRecs == 3
MaxLoadRecs == 3
MaxApiRecs == 2

\* ------------------------------------------------------- values of a record
\* pd.to_datetime(..., errors="coerce") turns an unparsable date into NaT,
\* pd.to_numeric(..., errors="coerce") a non-numeric age into NaN; a string
\* column holds NaN (here "") where the input has no value.
NaT == 0
NaN == 0
NoValue == ""

\* A cell of the verified column: Python True or False, or NaN (NoValue)
\* where the record has no such key and other records of the batch have.
PyTrue == "True"
PyFalse == "False"
Bools == {PyTrue, PyFalse}

States == {"A", "B"}
TopStates == {"A", "B", "C"}
Genders == {"F"}
Causes == {"x", "y", "z"}

\* The three dashboards; app.py and app1.1.py share one filter block, and
\* app_1.2.py adds the gender multiselect.
Apps == {"app1.1", "app_1.2"}

\* Program constants.
TopN == 5
TopCauses == 10
RollingWindow == 7
RollingWindow14 == 14

\* compute_latest_dod returns None, which the KPI shows as "N/A"; a number
\* it returns is the fraction num / den with den # 0.
None == [num |-> 0, den |-> 0]

VARIABLES
    app,              \* which program this process runs
    readable,         \* whether data.json can be opened and parsed
    arr,              \* arr = json.load(f): the records of data.json
    df,               \* df = load_data(): the record store
    top_n,            \* top_n of the top-states tab
    n_causes,         \* n of top_causes = ...nlargest(n)
    window,           \* window of rolling(window=..., min_periods=1)
    start, end,       \* st.date_input "From" / "To"
    selected_states,  \* st.multiselect "State"
    verified_only,    \* st.checkbox "Verified only"
    age_range,        \* st.slider "Age range": <<lo, hi>>
    selected_genders, \* st.multiselect "Gender" (app_1.2.py)
    fdf,              \* fdf = df[mask].copy(): the filtered view
    built,            \* the charts and tables this run built (the others show st.info)
    dod_pct,          \* latest-day % change KPI (app1.1.py)
    daily,            \* rows [date, count] of the daily trend tab (app1.1.py)
    rolling,          \* daily["rolling_7d"]
    anomaly,          \* daily["anomaly"]
    top_states,       \* top_states of the top-states tab
    pivot,            \* pivot of the top-states tab: [date, cols]
    by_state,         \* by_state: rows [value, count]
    top_causes,       \* top_causes: rows [value, count]
    daily_series,     \* daily_series of app_1.2.py: rows [date, count]
    heat_pivot,       \* heat_pivot of the weekday heatmap tab: rows [year_week, cells]
    monthly,          \* the monthly time series: rows [month, count]
    daily_rate,       \* the "Daily Rate" KPI (app_1.2.py)
    verified_count,   \* the "Verified" KPI
    quality_df,       \* the "Data Quality Check" table (app_1.2.py)
    response,         \* the last HTTP response of main.py
    query             \* request.args of the last HTTP request of main.py

config == <<app, df, top_n, n_causes, window>>
file == <<readable, arr>>
widgets == <<start, end, selected_states, verified_only, age_range, selected_genders>>
outputs == <<fdf, built, dod_pct, daily, rolling, anomaly, top_states, pivot,
             by_state, top_causes, daily_series, heat_pivot, monthly, daily_rate,
             verified_count, quality_df, response>>
vars == <<file, config, widgets, query, outputs>>

\* --------------------------------------------------------------- helpers
Range(s) == {s[i] : i \in DOMAIN s}

RECURSIVE SelectRows(_, _, _)
\* df[mask]: the rows i..len of `rows` whose mask value is True, in row order.
SelectRows(rows, mask, i) ==
    IF i > Len(rows) THEN <<>>
    ELSE IF mask[i] THEN <<rows[i]>> \o SelectRows(rows, mask, i + 1)
         ELSE SelectRows(rows, mask, i + 1)

Min(S) == CHOOSE x \in S : \A y \in S : x <= y
Max(S) == CHOOSE x \in S : \A y \in S : x >= y

\* ------------------------------------------------------------- sidebar
\* df["reported_date"].min().date() if not all NaT else date(2020,1,1)
min_date(d) ==
    LET ds == {d[i].reported_date : i \in DOMAIN d} \ {NaT}
    IN  IF ds # {} THEN Min(ds) ELSE 1

\* df["reported_date"].max().date() if not all NaT else date.today()
max_date(d) ==
    LET ds == {d[i].reported_date : i \in DOMAIN d} \ {NaT}
    IN  IF ds # {} THEN Max(ds) ELSE MaxDate

\* sorted(df["state"].dropna().unique()): the options of the multiselect
states(d) == {d[i].state : i \in DOMAIN d} \ {NoValue}

\* sorted(df["gender"].dropna().unique())
genders(d) == {d[i].gender : i \in DOMAIN d} \ {NoValue}

\* int(df["age"].min(skipna=True)) if not all NaN else 0
min_age(d) ==
    LET as == {d[i].age : i \in DOMAIN d} \ {NaN}
    IN  IF as # {} THEN Min(as) ELSE 1

\* int(df["age"].max(skipna=True)) if not all NaN else 100
max_age(d) ==
    LET as == {d[i].age : i \in DOMAIN d} \ {NaN}
    IN  IF as # {} THEN Max(as) ELSE MaxAge

\* ------------------------------------------------------- Apply filters
\* One row of the boolean mask.  A comparison with NaT or NaN is False, and
\* isin() is False for a missing value.  An empty multiselect is falsy, so
\* `if selected_states:` / `if selected_genders ...:` skip their line.
\* Faulty variant: a missing age passes the age line.
MaskAgeOptional(r, s, e, ss, vo, ar, sg) ==
    /\ r.reported_date # NaT /\ r.reported_date >= s /\ r.reported_date <= e
    /\ (ss # {} => r.state \in ss)
    /\ (vo => r.verified = PyTrue)
    /\ r.age = NaN \/ (r.age >= ar[1] /\ r.age <= ar[2])
    /\ (sg # {} => r.gender \in sg)

Mask(r, s, e, ss, vo, ar, sg) ==
    /\ r.reported_date # NaT /\ r.reported_date >= s /\ r.reported_date <= e
    /\ (ss # {} => r.state \in ss)
    /\ (vo => r.verified = PyTrue)
    /\ r.age # NaN /\ r.age >= ar[1] /\ r.age <= ar[2]
    /\ (sg # {} => r.gender \in sg)

\* Faulty variant: the mask is taken one row late (mask.shift(1)), so it no longer
\* lines up with the rows it selects.
ApplyFiltersShifted(d, s, e, ss, vo, ar, sg) ==
    LET mask == [i \in DOMAIN d |-> i > 1 /\ Mask(d[i - 1], s, e, ss, vo, ar, sg)]
    IN  SelectRows(d, mask, 1)

ApplyFilters(d, s, e, ss, vo, ar, sg) ==
    LET mask == [i \in DOMAIN d |-> Mask(d[i], s, e, ss, vo, ar, sg)]
    IN  SelectRows(d, mask, 1)

\* ------------------------------------------------------------ calendar
\* Day 1 is Saturday 2023-12-30: days 1 and 2 end ISO week 2023-W52 and
\* December 2023, day 3 is Monday 2024-01-01.
\* Series.dt.isocalendar(): ISO year and ISO week of a date (up to 2024-12-29).
isocalendar(d) ==
    IF d <= 2 THEN [year |-> 2023, week |-> 52]
    ELSE [year |-> 2024, week |-> (d - 3) \div 7 + 1]

\* Series.dt.weekday: 0 = Monday .. 6 = Sunday.
weekday(d) == (d + 4) % 7

\* The last day of December 2023 and of January, February, March 2024.
MonthEnds == <<2, 33, 62, 93>>

\* The calendar month a date falls in, as a position in MonthEnds.
month_of(d) == Min({k \in DOMAIN MonthEnds : d <= MonthEnds[k]})

RECURSIVE zfill(_, _)
\* str.zfill(width): zeros on the left up to the width.
zfill(str, width) == IF Len(str) < width THEN zfill("0" \o str, width) ELSE str

\* strftime("%Y-%m") of a date in the month at position k of MonthEnds.
strftime_Ym(k) ==
    IF k = 1 THEN ToString(2023) \o "-" \o zfill(ToString(12), 2)
    ELSE ToString(2024) \o "-" \o zfill(ToString(k - 1), 2)

\* ------------------------------------------------- temporal aggregation
RECURSIVE SortAsc(_)
\* sort_index(): the keys in ascending order.
SortAsc(S) ==
    IF S = {} THEN <<>> ELSE <<Min(S)>> \o SortAsc(S \ {Min(S)})

RECURSIVE GroupSize(_, _, _)
\* size() of one group: the rows i..len of the view whose date is d.
GroupSize(view, d, i) ==
    IF i > Len(view) THEN 0
    ELSE (IF view[i].reported_date = d THEN 1 ELSE 0) + GroupSize(view, d, i + 1)

\* fdf.assign(date_only=...).groupby("date_only").size().sort_index():
\* one row per date that has a record (groupby drops NaT keys), ascending.
groupby_date(view) ==
    LET keys == SortAsc({view[i].reported_date : i \in DOMAIN view} \ {NaT})
    IN  [k \in DOMAIN keys |-> [date |-> keys[k], count |-> GroupSize(view, keys[k], 1)]]

\* pd.date_range(start, end): every date from s to e, empty when e < s.
date_range(s, e) == [i \in 1..(e - s + 1) |-> s + i - 1]

\* sized.reindex(idx, fill_value=0): the row of each date of idx, 0 where
\* sized has no row for it; rows of sized outside idx are dropped.
reindex(sized, idx) ==
    [i \in DOMAIN idx |->
        LET hit == {k \in DOMAIN sized : sized[k].date = idx[i]}
        IN  [date |-> idx[i],
             count |-> IF hit = {} THEN 0 ELSE sized[CHOOSE k \in hit : TRUE].count]]

\* Faulty variant: the series runs from the first to the last date that has a
\* record, as resample("D") does, instead of over start..end.
daily_trend_observed(view, s, e) ==
    LET sized == groupby_date(view)
    IN  IF sized = <<>> THEN <<>>
        ELSE reindex(sized, date_range(sized[1].date, sized[Len(sized)].date))

\* The daily trend tab of app1.1.py: groupby, then reindex over start..end.
daily_trend(view, s, e) == reindex(groupby_date(view), date_range(s, e))

\* fdf.set_index("reported_date").resample("D").size(): one row per day from
\* the first to the last date of the view (app_1.2.py, main.py).
resample_D(view) ==
    LET sized == groupby_date(view)
    IN  IF sized = <<>> THEN <<>>
        ELSE reindex(sized, date_range(sized[1].date, sized[Len(sized)].date))

counts(rows) == [i \in DOMAIN rows |-> rows[i].count]

\* ------------------------------------------------- rolling and anomalies
RECURSIVE Sum(_, _)
\* x[1] + ... + x[i]
Sum(x, i) == IF i = 0 THEN 0 ELSE Sum(x, i - 1) + x[i]

RECURSIVE SumSq(_, _)
SumSq(x, i) == IF i = 0 THEN 0 ELSE SumSq(x, i - 1) + x[i] * x[i]

RECURSIVE RollSum(_, _, _)
\* The running sum of pandas' rolling window after index i (1-based): add
\* x[i], and remove x[i - w] once the window is full.
RollSum(x, w, i) ==
    IF i = 0 THEN 0
    ELSE RollSum(x, w, i - 1) + x[i] - (IF i > w THEN x[i - w] ELSE 0)

\* Faulty variant: the row that leaves the window is never removed (expanding mean).
rolling_mean_expanding(x, w) ==
    [i \in DOMAIN x |-> [num |-> Sum(x, i), den |-> i]]

\* x.rolling(window=w, min_periods=1, center=False).mean()
rolling_mean(x, w) ==
    [i \in DOMAIN x |-> [num |-> RollSum(x, w, i), den |-> IF i > w THEN w ELSE i]]

\* n * (n - 1) * x.std() ** 2 (sample variance, ddof = 1), an integer.
\* std() is NaN for a single point; `std() > 0` is then False.
ScaledVar(x) == Len(x) * SumSq(x, Len(x)) - Sum(x, Len(x)) * Sum(x, Len(x))

\* Faulty variant: count >= threshold instead of count > threshold.
detect_anomaly_ge(x) ==
    LET n == Len(x)
        S == Sum(x, n)
        V == ScaledVar(x)
        std_positive == n >= 2 /\ V > 0
    IN  [i \in DOMAIN x |->
            IF std_positive
            THEN /\ n * x[i] >= S
                 /\ (n * x[i] - S) * (n * x[i] - S) * (n - 1) >= 4 * n * V
            ELSE n * x[i] >= S]

\* global_std = std() if std() > 0 else 0; threshold = mean + 2 * global_std;
\* anomaly = count > threshold.  With n = len, S = sum and V = ScaledVar:
\* c > S/n + 2*sqrt(V / (n*(n-1)))  iff  n*c > S and (n*c - S)^2 * (n-1) > 4*n*V.
detect_anomaly(x) ==
    LET n == Len(x)
        S == Sum(x, n)
        V == ScaledVar(x)
        std_positive == n >= 2 /\ V > 0
    IN  [i \in DOMAIN x |->
            IF std_positive
            THEN /\ n * x[i] > S
                 /\ (n * x[i] - S) * (n * x[i] - S) * (n - 1) > 4 * n * V
            ELSE n * x[i] > S]

\* Faulty variant: the `if prev == 0` guard is missing.
compute_latest_dod_unguarded(series) ==
    IF Len(series) < 2 THEN None
    ELSE LET last == series[Len(series)]
             prev == series[Len(series) - 1]
         IN  [num |-> (last - prev) * 100, den |-> prev]

\* def compute_latest_dod(series)
compute_latest_dod(series) ==
    IF Len(series) < 2 THEN None
    ELSE LET last == series[Len(series)]
             prev == series[Len(series) - 1]
         IN  IF prev = 0 THEN None
             ELSE [num |-> (last - prev) * 100, den |-> prev]

\* Faulty variant: the series is zero-filled between its first and last date.
latest_dod_kpi_filled(view) ==
    IF view = <<>> THEN None
    ELSE LET daily_all == resample_D(view)
         IN  IF Len(daily_all) >= 2 THEN compute_latest_dod(counts(daily_all)) ELSE None

\* The day-over-day KPI block: the series is daily_all, the dates that have
\* a record (not zero-filled); an empty view shows "N/A" at once.
latest_dod_kpi(view) ==
    IF view = <<>> THEN None
    ELSE LET daily_all == groupby_date(view)
         IN  IF Len(daily_all) >= 2 THEN compute_latest_dod(counts(daily_all)) ELSE None

\* ---------------------------------------------- categorical aggregation
column(view, field) == [i \in DOMAIN view |-> view[i][field]]

RECURSIVE Occurrences(_, _, _)
\* How many of col[i..] equal v.
Occurrences(col, v, i) ==
    IF i > Len(col) THEN 0
    ELSE (IF col[i] = v THEN 1 ELSE 0) + Occurrences(col, v, i + 1)

\* The orders of the entries of S.
Orders(S) ==
    {f \in [1..Cardinality(S) -> S] : \A i, j \in DOMAIN f : i # j => f[i] # f[j]}

Descending(rows) ==
    \A i, j \in DOMAIN rows : i < j => rows[i].count >= rows[j].count

\* Series.sort_values(ascending=False): the default kind is "quicksort",
\* which is not a stable sort, so the order among rows of equal count is
\* whatever the installed numpy yields: any order with descending counts.
sort_values_desc(rows) == {o \in Orders(rows) : Descending(o)}

\* col.value_counts(): one row per distinct non-missing value (dropna) with
\* its number of occurrences, then sort_values(ascending=False).
value_counts(col) ==
    sort_values_desc({[value |-> v, count |-> Occurrences(col, v, 1)] :
                      v \in Range(col) \ {NoValue}})

\* Faulty variant: nsmallest in place of nlargest: the last n rows of the sorted vc.
nsmallest(vc, n) ==
    IF n >= Len(vc) THEN sort_values_desc(Range(vc))
    ELSE {SubSeq(vc, Len(vc) - n + 1, Len(vc))}

\* vc.nlargest(n): with n >= len(vc) it is vc.sort_values(ascending=False)
\* .head(n); otherwise the n largest with keep="first", in descending order
\* with equal counts in their order in vc: the first n rows of a sorted vc.
nlargest(vc, n) ==
    IF n >= Len(vc) THEN sort_values_desc(Range(vc)) ELSE {SubSeq(vc, 1, n)}

index(rows) == [i \in DOMAIN rows |-> rows[i].value]

\* ------------------------------------------------------- top states tab
RECURSIVE CellSize(_, _, _, _)
\* size() of the group (date_only = d, state = st).
CellSize(view, d, st, i) ==
    IF i > Len(view) THEN 0
    ELSE (IF view[i].reported_date = d /\ view[i].state = st THEN 1 ELSE 0)
         + CellSize(view, d, st, i + 1)

\* Faulty variant: the reindex over full_range is missing, so the table keeps only
\* the dates on which a top state has a record.
top_states_pivot_unaligned(view, tops, s, e) ==
    LET per_state == SelectRows(view, [i \in DOMAIN view |->
                                          view[i].state \in Range(tops)], 1)
        dated == SortAsc({per_state[i].reported_date : i \in DOMAIN per_state} \ {NaT})
        cols == {per_state[i].state : i \in {k \in DOMAIN per_state :
                                              per_state[k].reported_date # NaT}}
    IN  [date |-> dated,
         cols |-> [st \in cols |->
                    [i \in DOMAIN dated |-> CellSize(per_state, dated[i], st, 1)]]]

\* Faulty variant: groupby("state") only, so a cell of a date that has a record
\* of a top state holds the state's count over all dates.
top_states_pivot_totals(view, tops, s, e) ==
    LET per_state == SelectRows(view, [i \in DOMAIN view |->
                                          view[i].state \in Range(tops)], 1)
        dated == {per_state[i].reported_date : i \in DOMAIN per_state} \ {NaT}
        cols == {per_state[i].state : i \in {k \in DOMAIN per_state :
                                              per_state[k].reported_date # NaT}}
        full_range == date_range(s, e)
    IN  [date |-> full_range,
         cols |-> [st \in cols |->
                    [i \in DOMAIN full_range |->
                        IF full_range[i] \in dated
                        THEN Occurrences(column(per_state, "state"), st, 1)
                        ELSE 0]]]

\* per_state -> pivot(index="date_only", columns="state").fillna(0)
\* -> reindex(full_range, fill_value=0): one column per state of top_states
\* that has a dated row, each a list of counts along date_range(s, e).
top_states_pivot(view, tops, s, e) ==
    LET per_state == SelectRows(view, [i \in DOMAIN view |->
                                          view[i].state \in Range(tops)], 1)
        dated == {per_state[i].reported_date : i \in DOMAIN per_state} \ {NaT}
        cols == {per_state[i].state : i \in {k \in DOMAIN per_state :
                                              per_state[k].reported_date # NaT}}
        full_range == date_range(s, e)
    IN  [date |-> full_range,
         cols |-> [st \in cols |->
                    [i \in DOMAIN full_range |->
                        IF full_range[i] \in dated
                        THEN CellSize(per_state, full_range[i], st, 1)
                        ELSE 0]]]

\* ------------------------------------------------------ weekday heatmap
weekday_names == <<"Mon", "Tue", "Wed", "Thu", "Fri", "Sat", "Sun">>

\* Faulty variant: the week number is not padded to two digits.
year_week_unpadded(d) ==
    ToString(isocalendar(d).year) \o "-" \o ToString(isocalendar(d).week)

\* heat["year_week"] = year.astype(str) + "-" + week.astype(str).str.zfill(2)
year_week(d) ==
    ToString(isocalendar(d).year) \o "-" \o zfill(ToString(isocalendar(d).week), 2)

\* The position of a year_week label in the sorted index of the groupby:
\* four-digit years and two-digit weeks sort as the number year * 100 + week.
year_week_rank(d) == isocalendar(d).year * 100 + isocalendar(d).week

\* heat.groupby(["year_week", weekday]).size().unstack(fill_value=0): a row
\* per year_week of the view in index order, a column per weekday that
\* occurs in the view, 0 where a week has no record on that weekday.
unstack(view) ==
    LET dates == {view[i].reported_date : i \in DOMAIN view}
        ranks == SortAsc({year_week_rank(d) : d \in dates})
        days == {weekday(d) : d \in dates}
    IN  [k \in DOMAIN ranks |->
            LET first == CHOOSE d \in dates : year_week_rank(d) = ranks[k]
            IN  [year_week |-> year_week(first),
                 cols |-> [wd \in days |->
                     Cardinality({i \in DOMAIN view :
                         /\ year_week_rank(view[i].reported_date) = ranks[k]
                         /\ weekday(view[i].reported_date) = wd})]]]

\* heat_pivot.reindex(columns=list(range(7)), fill_value=0), the columns
\* then named by weekday_names: cells[c] is the column weekday_names[c].
weekday_heatmap(view) ==
    LET wide == unstack(view)
    IN  [k \in DOMAIN wide |->
            [year_week |-> wide[k].year_week,
             cells |-> [c \in DOMAIN weekday_names |->
                 IF c - 1 \in DOMAIN wide[k].cols THEN wide[k].cols[c - 1] ELSE 0]]]

\* ------------------------------------------------------- monthly series
\* Faulty variant: groupby on the month instead of resample, which has no
\* row for a month without records.
monthly_observed(view) ==
    LET months == SortAsc({month_of(view[i].reported_date) : i \in DOMAIN view})
    IN  [k \in DOMAIN months |->
            [month |-> strftime_Ym(months[k]),
             count |-> Cardinality({i \in DOMAIN view :
                          month_of(view[i].reported_date) = months[k]})]]

\* fdf.set_index("reported_date").resample("M").size(), with the column
\* month = reported_date.dt.strftime("%Y-%m"): a bin per calendar month
\* from the month of the first date to the month of the last.
resample_M(view) ==
    LET months == {month_of(view[i].reported_date) : i \in DOMAIN view}
        lo == Min(months)
        hi == Max(months)
    IN  [k \in 1..(hi - lo + 1) |->
            [month |-> strftime_Ym(lo + k - 1),
             count |-> Cardinality({i \in DOMAIN view :
                          month_of(view[i].reported_date) = lo + k - 1})]]

\* ----------------------------------------------------------------- KPIs
\* A float that is NaN.
NotANumber == [num |-> 0, den |-> 0]

\* days_span = (max - min).days; daily_rate = len(fdf) / max(days_span, 1).
\* max() and min() skip NaT; with no date at all they are NaT, NaT.days is
\* NaN, max(NaN, 1) is NaN and the rate is NaN.
daily_rate_kpi(view) ==
    LET dates == {view[i].reported_date : i \in DOMAIN view} \ {NaT}
    IN  IF dates = {} THEN NotANumber
        ELSE [num |-> Len(view), den |-> Max({Max(dates) - Min(dates), 1})]

\* round(x, 2) of a fraction or NaN, as hundredths: to the nearest, a tie
\* to the even hundredth.
round2(x) ==
    IF x.den = 0 THEN NotANumber
    ELSE LET q == (100 * x.num) \div x.den
             r == (100 * x.num) % x.den
         IN  [num |-> IF 2 * r > x.den \/ (2 * r = x.den /\ q % 2 = 1) THEN q + 1 ELSE q,
              den |-> 100]

\* The "Data Quality Check" table has not been built.
NoQuality ==
    [total_records |-> 0, missing_dates |-> 0, missing_ages |-> 0,
     missing_states |-> 0, missing_causes |-> 0]

\* quality_data: len(fdf) and fdf[column].isna().sum() for four columns of
\* the view.
quality_data(view) ==
    [total_records  |-> Len(view),
     missing_dates  |-> Cardinality({i \in DOMAIN view : view[i].reported_date = NaT}),
     missing_ages   |-> Cardinality({i \in DOMAIN view : view[i].age = NaN}),
     missing_states |-> Cardinality({i \in DOMAIN view : view[i].state = NoValue}),
     missing_causes |-> Cardinality({i \in DOMAIN view : view[i].cause_of_death = NoValue})]

\* Faulty variant: a cell that is not False counts (NaN is truthy).
verified_sum_truthy(view) ==
    Cardinality({i \in DOMAIN view : view[i].verified # PyFalse})

\* int(fdf["verified"].sum()): True counts 1, False 0, NaN is skipped.
verified_sum(view) ==
    Cardinality({i \in DOMAIN view : view[i].verified = PyTrue})

\* ------------------------------------------------------------- the store
\* load_data: pd.DataFrame(arr) with the columns normalized.  A date that
\* does not parse is NaT and an age that is no number is NaN already in arr
\* (errors="coerce").  If no record has a "verified" key the column is set
\* to False; if only some lack it, DataFrame(arr) leaves NaN in their cells.
load_data(a) ==
    IF \A i \in DOMAIN a : a[i].verified = NoValue
    THEN [i \in DOMAIN a |-> [a[i] EXCEPT !.verified = PyFalse]]
    ELSE a

Records(dates, sts, vers, ages, gens, causes) ==
    [reported_date : dates, state : sts, verified : vers,
     age : ages, gender : gens, cause_of_death : causes]

\* The batches of 1 to n rows; case_id is the row's position, unique in the
\* batch.  (With no row at all the DataFrame has no columns and the sidebar
\* block of the script raises KeyError.)
Batches(n, recs) ==
    UNION {{[i \in 1..k |-> [case_id |-> i] @@ f[i]] : f \in [1..k -> recs]} : k \in 1..n}

\* The stores of Spec: every single row there is, and batches of up to
\* MaxRecs rows that differ in date, state and verified, or in age, gender
\* and verified.
Stores ==
    Batches(1, Records({NaT} \cup 1..MaxDate, States \cup {NoValue}, Bools,
                       {NaN} \cup 1..MaxAge, Genders \cup {NoValue}, {"x"}))
    \cup Batches(MaxRecs, Records({NaT} \cup 1..MaxDate, States \cup {NoValue}, Bools,
                                  {1}, {"F"}, {"x"}))
    \cup Batches(MaxRecs, Records({1}, {"A"}, Bools, {NaN} \cup 1..MaxAge,
                                  Genders \cup {NoValue}, {"x"}))

\* -------------------------------------------------------------- the script
\* No HTTP response (the Streamlit scripts serve none).
NoResponse == [endpoint |-> "", status |-> 0, error |-> "", total_cases |-> 0,
               states_count |-> 0]

\* No HTTP request, and a request with an empty query string.
NoQuery == [start_date |-> 0, end_date |-> 0, states |-> {}, verified_only |-> FALSE,
            min_age |-> 0, max_age |-> 0]

NoPivot == [date |-> <<>>, cols |-> <<>>]

\* What one run of script a builds from the view v, with vc, ts, cc and tc
\* the outcomes of its value_counts() / nlargest() calls.  A block whose
\* guard (`if not fdf.empty ...`) fails shows st.info and builds nothing.
Page(a, v, s, e, n, w, vc, ts, tc) ==
    IF v = <<>>
    THEN [built |-> {}, dod_pct |-> None, daily |-> <<>>, rolling |-> <<>>,
          anomaly |-> <<>>, top_states |-> <<>>, pivot |-> NoPivot,
          by_state |-> <<>>, top_causes |-> <<>>, daily_series |-> <<>>,
          heat_pivot |-> <<>>, monthly |-> <<>>, daily_rate |-> None,
          verified_count |-> verified_sum(v), quality_df |-> NoQuality]
    ELSE IF a = "app1.1"
    THEN LET d == daily_trend(v, s, e)
         IN  [built |-> {"dod_pct", "daily", "top_states", "by_state", "top_causes",
                         "heat_pivot", "monthly"},
              dod_pct |-> latest_dod_kpi(v),
              daily |-> d,
              rolling |-> rolling_mean(counts(d), w),
              anomaly |-> detect_anomaly(counts(d)),
              top_states |-> index(ts),
              pivot |-> top_states_pivot(v, index(ts), s, e),
              by_state |-> vc,
              top_causes |-> tc,
              daily_series |-> <<>>,
              heat_pivot |-> weekday_heatmap(v),
              monthly |-> resample_M(v),
              daily_rate |-> None,
              verified_count |-> verified_sum(v),
              quality_df |-> NoQuality]
    ELSE LET ds == resample_D(v)
         IN  [built |-> {"daily_series", "by_state", "top_causes", "monthly", "daily_rate",
                         "quality_df"},
              dod_pct |-> None, daily |-> <<>>,
              rolling |-> rolling_mean(counts(ds), w),
              anomaly |-> <<>>, top_states |-> <<>>, pivot |-> NoPivot,
              by_state |-> vc,
              top_causes |-> tc,
              daily_series |-> ds,
              heat_pivot |-> <<>>,
              monthly |-> resample_M(v),
              daily_rate |-> daily_rate_kpi(v),
              verified_count |-> verified_sum(v),
              quality_df |-> quality_data(v)]

\* top_causes = fdf["cause_of_death"].value_counts().nlargest(10)
top_causes_of(view, n) ==
    UNION {nlargest(cc, n) : cc \in value_counts(column(view, "cause_of_death"))}

\* The outcomes of one run of script a on the view v.  The script calls
\* fdf["state"].value_counts() twice on the same view (top_states, by_state):
\* one build gives both calls the same order.
Pages(a, v, s, e, n, nc, w) ==
    UNION {UNION {{Page(a, v, s, e, n, w, vc, ts, tc) : tc \in top_causes_of(v, nc)} :
                  ts \in nlargest(vc, n)} :
           vc \in value_counts(column(v, "state"))}

Shows(page) ==
    /\ built = page.built
    /\ dod_pct = page.dod_pct
    /\ daily = page.daily
    /\ rolling = page.rolling
    /\ anomaly = page.anomaly
    /\ top_states = page.top_states
    /\ pivot = page.pivot
    /\ by_state = page.by_state
    /\ top_causes = page.top_causes
    /\ daily_series = page.daily_series
    /\ heat_pivot = page.heat_pivot
    /\ monthly = page.monthly
    /\ daily_rate = page.daily_rate
    /\ verified_count = page.verified_count
    /\ quality_df = page.quality_df

ShowsNext(page) ==
    /\ built' = page.built
    /\ dod_pct' = page.dod_pct
    /\ daily' = page.daily
    /\ rolling' = page.rolling
    /\ anomaly' = page.anomaly
    /\ top_states' = page.top_states
    /\ pivot' = page.pivot
    /\ by_state' = page.by_state
    /\ top_causes' = page.top_causes
    /\ daily_series' = page.daily_series
    /\ heat_pivot' = page.heat_pivot
    /\ monthly' = page.monthly
    /\ daily_rate' = page.daily_rate
    /\ verified_count' = page.verified_count
    /\ quality_df' = page.quality_df

\* One run of the script, top to bottom, with the given widget values.
Run(s, e, ss, vo, ar, sg) ==
    /\ start' = s
    /\ end' = e
    /\ selected_states' = ss
    /\ verified_only' = vo
    /\ age_range' = ar
    /\ selected_genders' = sg
    /\ fdf' = ApplyFilters(df, s, e, ss, vo, ar, sg)
    /\ \E page \in Pages(app, fdf', s, e, top_n, n_causes, window) : ShowsNext(page)
    /\ UNCHANGED <<file, config, response, query>>

\* The first run: every widget at its default value.
Defaults ==
    /\ start = min_date(df)
    /\ end = max_date(df)
    /\ selected_states = states(df)
    /\ verified_only = FALSE
    /\ age_range = <<min_age(df), max_age(df)>>
    /\ selected_genders = IF app = "app_1.2" THEN genders(df) ELSE {}
    /\ fdf = ApplyFilters(df, start, end, selected_states, verified_only,
                          age_range, selected_genders)
    /\ \E page \in Pages(app, fdf, start, end, top_n, n_causes, window) : Shows(page)
    /\ response = NoResponse
    /\ query = NoQuery

Init ==
    /\ app \in Apps
    /\ readable = TRUE
    /\ arr \in Stores
    /\ df = load_data(arr)
    /\ top_n = TopN
    /\ n_causes = TopCauses
    /\ window = RollingWindow
    /\ Defaults

\* days: the last day of the calendar the date inputs offer.  app1.1.py
\* has one date_input for "From" and one for "To", each free of the other;
\* the single range date_input of app_1.2.py hands back an ordered pair.
SetStart(days) ==
    \E d \in 1..days :
        /\ app = "app_1.2" => d <= end
        /\ Run(d, end, selected_states, verified_only, age_range, selected_genders)

SetEnd(days) ==
    \E d \in 1..days :
        /\ app = "app_1.2" => start <= d
        /\ Run(start, d, selected_states, verified_only, age_range, selected_genders)

SetStates ==
    \E ss \in SUBSET states(df) :
        Run(start, end, ss, verified_only, age_range, selected_genders)

SetVerifiedOnly ==
    Run(start, end, selected_states, ~verified_only, age_range, selected_genders)

SetAgeRange ==
    \E lo \in min_age(df)..max_age(df) : \E hi \in lo..max_age(df) :
        Run(start, end, selected_states, verified_only, <<lo, hi>>, selected_genders)

SetGenders ==
    /\ app = "app_1.2"
    /\ \E sg \in SUBSET genders(df) :
        Run(start, end, selected_states, verified_only, age_range, sg)

Next ==
    \/ SetStart(MaxDate)
    \/ SetEnd(MaxDate)
    \/ SetStates
    \/ SetVerifiedOnly
    \/ SetAgeRange
    \/ SetGenders

Spec == Init /\ [][Next]_vars

\* ------------------------------------------------ aggregation over dates
\* The top-N sizes tried: the scripts' own, and every k up to MaxTopN for
\* both nlargest calls, so that categories are cut off in a small batch.
TopSizes == {<<TopN, TopCauses>>} \cup {<<k, k>> : k \in 1..MaxTopN}

\* Batches of up to MaxAggRecs rows that differ in date only, and of up to
\* MaxPivotRecs rows that differ in date and state; every row passes the
\* verified, age and gender lines of the filter.
AggStores ==
    Batches(MaxAggRecs, Records(1..MaxAggDate, {"A"}, {PyTrue}, {1}, {"F"}, {"x"}))
    \cup Batches(MaxPivotRecs, Records(1..MaxDate, States \cup {NoValue}, {PyTrue},
                                       {1}, {"F"}, {"x"}))

InitAgg ==
    /\ app = "app1.1"
    /\ readable = TRUE
    /\ arr \in AggStores
    /\ df = load_data(arr)
    /\ \E sz \in TopSizes : top_n = sz[1] /\ n_causes = sz[2]
    /\ window = RollingWindow
    /\ Defaults

NextAgg ==
    \/ SetStart(MaxAggDate)
    \/ SetEnd(MaxAggDate)

SpecAgg == InitAgg /\ [][NextAgg]_vars

\* ------------------------------------------- aggregation over categories
\* Batches whose rows differ in state only, or in cause of death only.
TopStores ==
    Batches(MaxAggRecs, Records({1}, TopStates \cup {NoValue}, {PyTrue}, {1}, {"F"}, {"x"}))
    \cup Batches(MaxAggRecs, Records({1}, {"A"}, {PyTrue}, {1}, {"F"}, Causes \cup {NoValue}))

InitTop ==
    /\ app = "app1.1"
    /\ readable = TRUE
    /\ arr \in TopStores
    /\ df = load_data(arr)
    /\ \E sz \in TopSizes : top_n = sz[1] /\ n_causes = sz[2]
    /\ window = RollingWindow
    /\ Defaults

NextTop ==
    \/ SetStates

SpecTop == InitTop /\ [][NextTop]_vars

\* ------------------------------------------------- the HTTP API (main.py)
\* request.args.get(name) of a parameter the request does not carry: None.
NoArg == 0

\* main.py load_data: any failure to open or parse data.json is caught and
\* an empty DataFrame returned.
load_data_main(ok, a) == IF ok THEN load_data(a) ELSE <<>>

\* Faulty variant: the date line is not under `if start_date and end_date`.
api_mask_dated(r, s, e, ss, vo, lo, hi, filter_states, filter_verified, filter_age) ==
    /\ r.reported_date # NaT /\ r.reported_date >= s /\ r.reported_date <= e
    /\ (filter_states /\ ss # {}) => r.state \in ss
    /\ (filter_verified /\ vo) => r.verified = PyTrue
    /\ (filter_age /\ lo # NoArg) => (r.age # NaN /\ r.age >= lo)
    /\ (filter_age /\ hi # NoArg) => (r.age # NaN /\ r.age <= hi)

\* One row of the mask of an endpoint.  Each `if` skips its line when the
\* parameter is missing or empty; filter_states, filter_verified and
\* filter_age say which lines the endpoint has at all.
api_mask(r, s, e, ss, vo, lo, hi, filter_states, filter_verified, filter_age) ==
    /\ (s # NoArg /\ e # NoArg)
         => (r.reported_date # NaT /\ r.reported_date >= s /\ r.reported_date <= e)
    /\ (filter_states /\ ss # {}) => r.state \in ss
    /\ (filter_verified /\ vo) => r.verified = PyTrue
    /\ (filter_age /\ lo # NoArg) => (r.age # NaN /\ r.age >= lo)
    /\ (filter_age /\ hi # NoArg) => (r.age # NaN /\ r.age <= hi)

\* filtered_df = df[mask].copy()
api_filter(d, s, e, ss, vo, lo, hi, filter_states, filter_verified, filter_age) ==
    LET mask == [i \in DOMAIN d |->
                    api_mask(d[i], s, e, ss, vo, lo, hi,
                             filter_states, filter_verified, filter_age)]
    IN  SelectRows(d, mask, 1)

\* What a handler hands back: the response, and the view and the chart or
\* KPI values it computed on the way (empty where it computes none).
Answer(ep, status, error, view, total, nstates, vc, tc, ds, rate, ver) ==
    [response |-> [endpoint |-> ep, status |-> status, error |-> error,
                   total_cases |-> total, states_count |-> nstates],
     fdf |-> view, by_state |-> vc, top_causes |-> tc, daily_series |-> ds,
     daily_rate |-> rate, verified_count |-> ver]

\* jsonify({'error': ...}), status
ErrorAnswer(ep, status, error, view) ==
    Answer(ep, status, error, view, 0, 0, <<>>, <<>>, <<>>, NotANumber, 0)

\* /api/data
get_data(d, s, e, ss, vo, lo, hi) ==
    IF d = <<>> THEN {ErrorAnswer("data", 500, "No data available", <<>>)}
    ELSE LET filtered_df == api_filter(d, s, e, ss, vo, lo, hi, TRUE, TRUE, TRUE)
             daily_rate_0 == [num |-> 0, den |-> 100]
         IN  {Answer("data", 200, "", filtered_df, Len(filtered_df),
                     Cardinality(Range(column(filtered_df, "state")) \ {NoValue}),
                     <<>>, <<>>, <<>>,
                     IF filtered_df = <<>> THEN daily_rate_0
                     ELSE round2(daily_rate_kpi(filtered_df)),
                     verified_sum(filtered_df))}

\* /api/charts/daily-rate.  With no dated record in the view resample("D")
\* has no first and last day to span: it yields no rows or raises (a 500),
\* as the installed pandas has it.
daily_rate_chart(d, s, e, ss, vo) ==
    IF d = <<>> THEN {ErrorAnswer("daily-rate", 500, "No data available", <<>>)}
    ELSE LET filtered_df == api_filter(d, s, e, ss, vo, NoArg, NoArg, TRUE, TRUE, FALSE)
             shown == Answer("daily-rate", 200, "", filtered_df, 0, 0, <<>>, <<>>,
                             resample_D(filtered_df), NotANumber, 0)
         IN  IF filtered_df = <<>>
             THEN {ErrorAnswer("daily-rate", 404, "No data after filtering", filtered_df)}
             ELSE IF resample_D(filtered_df) = <<>>
             THEN {shown, ErrorAnswer("daily-rate", 500, "Internal Server Error", filtered_df)}
             ELSE {shown}

\* /api/charts/state-distribution
state_distribution_chart(d, s, e, ss) ==
    IF d = <<>> THEN {ErrorAnswer("state-distribution", 500, "No data available", <<>>)}
    ELSE LET filtered_df == api_filter(d, s, e, ss, FALSE, NoArg, NoArg, TRUE, FALSE, FALSE)
         IN  IF filtered_df = <<>>
             THEN {ErrorAnswer("state-distribution", 404, "No data after filtering", filtered_df)}
             ELSE {Answer("state-distribution", 200, "", filtered_df, 0, 0, vc, <<>>, <<>>,
                          NotANumber, 0) : vc \in value_counts(column(filtered_df, "state"))}

\* /api/charts/causes
causes_chart(d, s, e, n) ==
    IF d = <<>> THEN {ErrorAnswer("causes", 500, "No data available", <<>>)}
    ELSE LET filtered_df == api_filter(d, s, e, {}, FALSE, NoArg, NoArg, FALSE, FALSE, FALSE)
         IN  IF filtered_df = <<>>
             THEN {ErrorAnswer("causes", 404, "No data after filtering", filtered_df)}
             ELSE {Answer("causes", 200, "", filtered_df, 0, 0, <<>>, tc, <<>>,
                          NotANumber, 0) : tc \in top_causes_of(filtered_df, n)}

\* /api/charts/age-distribution
age_distribution_chart(d, s, e) ==
    IF d = <<>> THEN {ErrorAnswer("age-distribution", 500, "No data available", <<>>)}
    ELSE LET filtered_df == api_filter(d, s, e, {}, FALSE, NoArg, NoArg, FALSE, FALSE, FALSE)
         IN  IF filtered_df = <<>> \/ \A i \in DOMAIN filtered_df : filtered_df[i].age = NaN
             THEN {ErrorAnswer("age-distribution", 404, "No age data available", filtered_df)}
             ELSE {Answer("age-distribution", 200, "", filtered_df, 0, 0, <<>>, <<>>, <<>>,
                          NotANumber, 0)}

\* Faulty variant: the `if df.empty` check is missing.
export_csv_unchecked(d, s, e, ss, vo) ==
    LET filtered_df == api_filter(d, s, e, ss, vo, NoArg, NoArg, TRUE, TRUE, FALSE)
    IN  {Answer("export", 200, "", filtered_df, 0, 0, <<>>, <<>>, <<>>, NotANumber, 0)}

\* /api/export/csv: the rows of the view as CSV, also when there is none.
export_csv(d, s, e, ss, vo) ==
    IF d = <<>> THEN {ErrorAnswer("export", 500, "No data available", <<>>)}
    ELSE LET filtered_df == api_filter(d, s, e, ss, vo, NoArg, NoArg, TRUE, TRUE, FALSE)
         IN  {Answer("export", 200, "", filtered_df, 0, 0, <<>>, <<>>, <<>>, NotANumber, 0)}

\* The dates of the records of data.json, and the values a request carries.
ApiDays == {1, 2, 4}
\* start_date and end_date: neither given, only one given, the whole span
\* of ApiDays, the span inverted, and a single day.
DateArgs == {<<NoArg, NoArg>>, <<1, NoArg>>, <<1, 4>>, <<4, 1>>, <<2, 2>>}
AgeArgs == {<<NoArg, NoArg>>, <<1, MaxAge>>}
StateArgs == SUBSET {"A"}

\* The query strings of the requests.
Queries ==
    {[start_date |-> se[1], end_date |-> se[2], states |-> ss, verified_only |-> vo,
      min_age |-> ar[1], max_age |-> ar[2]] :
        se \in DateArgs, ss \in StateArgs, vo \in BOOLEAN, ar \in AgeArgs}

\* The contents of data.json: one record of any state, verified flag and
\* age, batches of up to MaxApiRecs records that differ in date, and the
\* empty list.
ApiStores ==
    Batches(1, Records({1}, States, Bools, {NaN, 1}, {"F"}, {"x"}))
    \cup Batches(MaxApiRecs, Records({NaT} \cup ApiDays, {"A"}, {PyTrue}, {1}, {"F"}, {"x"}))
    \cup {<<>>}

\* The process has started and served no request yet.
InitApi ==
    /\ app = "main"
    /\ readable \in BOOLEAN
    /\ arr \in ApiStores
    /\ readable = FALSE => arr = <<>>
    /\ df = <<>>
    /\ top_n = TopN
    /\ n_causes = TopCauses
    /\ window = RollingWindow
    /\ start = NoArg
    /\ end = NoArg
    /\ selected_states = {}
    /\ verified_only = FALSE
    /\ age_range = <<NoArg, NoArg>>
    /\ selected_genders = {}
    /\ fdf = <<>>
    /\ built = {}
    /\ dod_pct = None
    /\ daily = <<>>
    /\ rolling = <<>>
    /\ anomaly = <<>>
    /\ top_states = <<>>
    /\ pivot = NoPivot
    /\ by_state = <<>>
    /\ top_causes = <<>>
    /\ daily_series = <<>>
    /\ heat_pivot = <<>>
    /\ monthly = <<>>
    /\ daily_rate = NotANumber
    /\ verified_count = 0
    /\ quality_df = NoQuality
    /\ response = NoResponse
    /\ query = NoQuery

\* One request: df = load_data() afresh, the parameters read from the query
\* string, and the answer of the handler.
Serve(q, d, s, e, ss, vo, lo, hi, answer) ==
    /\ app = "main"
    /\ query' = q
    /\ df' = d
    /\ start' = s
    /\ end' = e
    /\ selected_states' = ss
    /\ verified_only' = vo
    /\ age_range' = <<lo, hi>>
    /\ fdf' = answer.fdf
    /\ by_state' = answer.by_state
    /\ top_causes' = answer.top_causes
    /\ daily_series' = answer.daily_series
    /\ rolling' = rolling_mean(counts(answer.daily_series), window)
    /\ daily_rate' = answer.daily_rate
    /\ verified_count' = answer.verified_count
    /\ response' = answer.response
    /\ UNCHANGED <<file, app, top_n, n_causes, window, selected_genders, built, dod_pct,
                   daily, anomaly, top_states, pivot, heat_pivot, monthly, quality_df>>

GetData ==
    \E q \in Queries :
        LET d == load_data_main(readable, arr)
        IN  \E answer \in get_data(d, q.start_date, q.end_date, q.states,
                                   q.verified_only, q.min_age, q.max_age) :
                Serve(q, d, q.start_date, q.end_date, q.states, q.verified_only,
                      q.min_age, q.max_age, answer)

DailyRateChart ==
    \E q \in Queries :
        LET d == load_data_main(readable, arr)
        IN  \E answer \in daily_rate_chart(d, q.start_date, q.end_date, q.states,
                                           q.verified_only) :
                Serve(q, d, q.start_date, q.end_date, q.states, q.verified_only,
                      NoArg, NoArg, answer)

StateDistributionChart ==
    \E q \in Queries :
        LET d == load_data_main(readable, arr)
        IN  \E answer \in state_distribution_chart(d, q.start_date, q.end_date, q.states) :
                Serve(q, d, q.start_date, q.end_date, q.states, FALSE, NoArg, NoArg, answer)

CausesChart ==
    \E q \in Queries :
        LET d == load_data_main(readable, arr)
        IN  \E answer \in causes_chart(d, q.start_date, q.end_date, n_causes) :
                Serve(q, d, q.start_date, q.end_date, {}, FALSE, NoArg, NoArg, answer)

AgeDistributionChart ==
    \E q \in Queries :
        LET d == load_data_main(readable, arr)
        IN  \E answer \in age_distribution_chart(d, q.start_date, q.end_date) :
                Serve(q, d, q.start_date, q.end_date, {}, FALSE, NoArg, NoArg, answer)

ExportCsv ==
    \E q \in Queries :
        LET d == load_data_main(readable, arr)
        IN  \E answer \in export_csv(d, q.start_date, q.end_date, q.states,
                                     q.verified_only) :
                Serve(q, d, q.start_date, q.end_date, q.states, q.verified_only,
                      NoArg, NoArg, answer)

\* While the server runs a record is added to data.json.  (A file that
\* cannot be read is one from the start: InitApi.)
FileChanges ==
    /\ app = "main"
    /\ readable
    /\ arr # <<>>
    /\ \E a \in ApiStores :
          /\ Len(a) = Len(arr) + 1
          /\ SubSeq(a, 1, Len(arr)) = arr
          /\ arr' = a
    /\ UNCHANGED <<readable, config, widgets, query, outputs>>

NextApi ==
    \/ GetData
    \/ DailyRateChart
    \/ StateDistributionChart
    \/ CausesChart
    \/ AgeDistributionChart
    \/ ExportCsv
    \/ FileChanges

SpecApi == InitApi /\ [][NextApi]_vars

\* ------------------------------------------ aggregation over the calendar
\* Sat 2023-12-30, Mon 2024-01-01, Tue 2024-01-02, Mon 2024-01-08 and
\* Thu 2024-02-01: two ISO years, three ISO weeks of 2024, three months.
CalDays == {1, 3, 4, 10, 34}

\* Batches of up to MaxCalRecs rows that differ in date and verified.
CalStores ==
    Batches(MaxCalRecs, Records(CalDays, {"A"}, Bools, {1}, {"F"}, {"x"}))

InitCal ==
    /\ app \in Apps
    /\ readable = TRUE
    /\ arr \in CalStores
    /\ df = load_data(arr)
    /\ top_n = TopN
    /\ n_causes = TopCauses
    /\ window = RollingWindow
    /\ Defaults

NextCal ==
    \/ SetVerifiedOnly

SpecCal == InitCal /\ [][NextCal]_vars

\* ------------------------------------------------- the verified column
\* Batches of up to MaxLoadRecs rows that differ in the "verified" key:
\* true, false, or not there.
LoadStores ==
    Batches(MaxLoadRecs, Records({1}, {"A"}, Bools \cup {NoValue}, {1}, {"F"}, {"x"}))

InitLoad ==
    /\ app \in Apps
    /\ readable = TRUE
    /\ arr \in LoadStores
    /\ df = load_data(arr)
    /\ top_n = TopN
    /\ n_causes = TopCauses
    /\ window = RollingWindow
    /\ Defaults

NextLoad ==
    \/ SetVerifiedOnly

SpecLoad == InitLoad /\ [][NextLoad]_vars

\* ------------------------------------------- the functions on a series
\* Every series of up to MaxSeriesLen daily counts in 0..MaxCount, as the
\* rows of `daily` over the dates 1..len.
AllSeries ==
    UNION {{[i \in 1..k |-> [date |-> i, count |-> x[i]]] : x \in [1..k -> 0..MaxCount]} :
           k \in 0..MaxSeriesLen}

Windows == 1..MaxWindow \cup {RollingWindow, RollingWindow14}

InitSeries ==
    /\ app = "app1.1"
    /\ readable = TRUE
    /\ arr = <<>>
    /\ df = <<>>
    /\ top_n = TopN
    /\ n_causes = TopCauses
    /\ window \in Windows
    /\ start = 1
    /\ daily \in AllSeries
    /\ end = Len(daily)
    /\ selected_states = {}
    /\ verified_only = FALSE
    /\ age_range = <<1, MaxAge>>
    /\ selected_genders = {}
    /\ fdf = <<>>
    /\ built = {"daily"}
    /\ dod_pct = None
    /\ rolling = <<>>
    /\ anomaly = <<>>
    /\ top_states = <<>>
    /\ pivot = NoPivot
    /\ by_state = <<>>
    /\ top_causes = <<>>
    /\ daily_series = <<>>
    /\ heat_pivot = <<>>
    /\ monthly = <<>>
    /\ daily_rate = None
    /\ verified_count = 0
    /\ quality_df = NoQuality
    /\ response = NoResponse
    /\ query = NoQuery

\* daily["rolling_7d"] = daily["count"].rolling(window=..., min_periods=1).mean()
Rolling ==
    /\ "rolling" \notin built
    /\ rolling' = rolling_mean(counts(daily), window)
    /\ built' = built \cup {"rolling"}
    /\ UNCHANGED <<file, config, widgets, query, fdf, dod_pct, daily, anomaly, top_states, pivot,
                   by_state, top_causes, daily_series, heat_pivot, monthly,
                   daily_rate, verified_count, quality_df, response>>

\* daily["anomaly"] = daily["count"] > threshold
Anomaly ==
    /\ "anomaly" \notin built
    /\ anomaly' = detect_anomaly(counts(daily))
    /\ built' = built \cup {"anomaly"}
    /\ UNCHANGED <<file, config, widgets, query, fdf, dod_pct, daily, rolling, top_states, pivot,
                   by_state, top_causes, daily_series, heat_pivot, monthly,
                   daily_rate, verified_count, quality_df, response>>

\* dod_pct = compute_latest_dod(...)
LatestDod ==
    /\ "dod_pct" \notin built
    /\ dod_pct' = compute_latest_dod(counts(daily))
    /\ built' = built \cup {"dod_pct"}
    /\ UNCHANGED <<file, config, widgets, query, fdf, daily, rolling, anomaly, top_states, pivot,
                   by_state, top_causes, daily_series, heat_pivot, monthly,
                   daily_rate, verified_count, quality_df, response>>

NextSeries ==
    \/ Rolling
    \/ Anomaly
    \/ LatestDod

SpecSeries == InitSeries /\ [][NextSeries]_vars

\* ============================================================ properties
\* The records of the view that were reported on date d.
ReportedOn(view, d) == {k \in DOMAIN view : view[k].reported_date = d}

\* The records of the view whose `field` is v.
Having(view, field, v) == {k \in DOMAIN view : view[k][field] = v}

\* C1: the filtered view is a subset of the store (no more rows than the
\* store, every row of the view is a row of the store, unaltered and in
\* store order), and filtering the view again with the same widget values
\* returns the same view.
C1_ViewNarrowsAndIsIdempotent ==
    /\ Len(fdf) <= Len(df)
    /\ \A k \in DOMAIN fdf :
          /\ fdf[k].case_id \in DOMAIN df
          /\ df[fdf[k].case_id] = fdf[k]
    /\ \A j, k \in DOMAIN fdf : j < k => fdf[j].case_id < fdf[k].case_id
    /\ ApplyFilters(fdf, start, end, selected_states, verified_only,
                    age_range, selected_genders) = fdf

\* C1 witness: a filter that keeps one row of a two-row store and drops the other.
C1_Witness ==
    /\ Len(df) = 2
    /\ Len(fdf) = 1
    /\ selected_states # {}

\* C2: a record is in the view iff it satisfies every predicate at once:
\* date within [start, end], state in the accepted set, verified when
\* verified-only is set, age within [lo, hi], and gender in the accepted
\* set when one is given.
C2_ViewIsConjunction ==
    \A i \in DOMAIN df :
        (\E k \in DOMAIN fdf : fdf[k] = df[i])
        <=> /\ df[i].reported_date # NaT
            /\ start <= df[i].reported_date /\ df[i].reported_date <= end
            /\ df[i].state \in selected_states
            /\ (verified_only => df[i].verified = PyTrue)
            /\ df[i].age # NaN
            /\ age_range[1] <= df[i].age /\ df[i].age <= age_range[2]
            /\ (selected_genders # {} => df[i].gender \in selected_genders)

\* The daily series the running dashboard shows.
ShownDaily == IF app = "app1.1" THEN daily ELSE daily_series

\* C3: for any view, an empty one included, and any start <= end, the daily
\* series has exactly (end - start).days + 1 entries, one per date of
\* [start, end] in ascending order.
C3_DailySeriesSpansRange ==
    start <= end =>
        /\ Len(ShownDaily) = end - start + 1
        /\ \A i \in DOMAIN ShownDaily : ShownDaily[i].date = start + i - 1

\* C4: in the daily series over [start, end] the count at each date d is the
\* number of records of the view reported on d; a date with no record is
\* there with count 0.
C4_DailyCountsZeroFilled ==
    "daily" \in built =>
        \A d \in start..end :
            /\ d - start + 1 \in DOMAIN daily
            /\ daily[d - start + 1].date = d
            /\ daily[d - start + 1].count = Cardinality(ReportedOn(fdf, d))

\* C4 witness: two records on day 1 and one on day 3 over days 1..3 give 2, 0, 1.
C4_Witness ==
    /\ "daily" \in built
    /\ start = 1 /\ end = 3
    /\ Len(fdf) = 3
    /\ counts(daily) = <<2, 0, 1>>

RECURSIVE SumOver(_, _)
\* The sum of x over the set of indices I.
SumOver(x, I) ==
    IF I = {} THEN 0
    ELSE LET i == CHOOSE j \in I : TRUE IN x[i] + SumOver(x, I \ {i})

\* The fractions a and b are the same number.
SameValue(a, b) == a.den # 0 /\ b.den # 0 /\ a.num * b.den = b.num * a.den

\* C5: the rolling mean has the length of the series; its value at index i
\* is the mean of series[max(0, i-w+1) .. i]; it is the same when every
\* element after i is cut off; and its value at index 0 is series[0].
C5_RollingMeanTrailing ==
    "rolling" \in built =>
        LET x == counts(daily)
        IN  /\ Len(rolling) = Len(x)
            /\ \A i \in DOMAIN x :
                  LET lo == IF i - window + 1 > 1 THEN i - window + 1 ELSE 1
                  IN  /\ SameValue(rolling[i], [num |-> SumOver(x, lo..i), den |-> i - lo + 1])
                      /\ SameValue(rolling[i], rolling_mean(SubSeq(x, 1, i), window)[i])
            /\ (x # <<>> => SameValue(rolling[1], [num |-> x[1], den |-> 1]))

\* C5 witness: a series longer than the window whose oldest value has left
\* the window and differs from the newest.
C5_Witness ==
    /\ "rolling" \in built
    /\ window >= 2
    /\ Len(daily) > window
    /\ daily[1].count # daily[Len(daily)].count

\* C6: the day-over-day change is "not available" for a series of length 0
\* or 1 and for a series whose second-to-last value is 0; otherwise it is
\* (last - prev) / prev * 100.
C6_DayOverDayChange ==
    "dod_pct" \in built =>
        LET x == counts(daily)
            n == Len(x)
        IN  IF n < 2 \/ x[n - 1] = 0
            THEN dod_pct = None
            ELSE /\ dod_pct # None
                 /\ dod_pct.den # 0
                 /\ dod_pct.num * x[n - 1] = (x[n] - x[n - 1]) * 100 * dod_pct.den

\* C6 witness: the previous day has no record and the last day has some.
C6_Witness ==
    /\ "dod_pct" \in built
    /\ Len(daily) >= 2
    /\ daily[Len(daily) - 1].count = 0
    /\ daily[Len(daily)].count > 0

\* C7: when every value of the series is equal (all zero and a single
\* point included) the anomaly detection flags no point, and it does give
\* a flag for every point.
C7_ConstantSeriesHasNoAnomaly ==
    ("anomaly" \in built /\ \A i, j \in DOMAIN daily : daily[i].count = daily[j].count) =>
        /\ Len(anomaly) = Len(daily)
        /\ \A i \in DOMAIN anomaly : anomaly[i] = FALSE

\* C7 witness: a constant series of several non-zero counts.
C7_Witness ==
    /\ "anomaly" \in built
    /\ Len(daily) >= 2
    /\ \A i \in DOMAIN daily : daily[i].count = MaxCount

\* C8: the top-states table has exactly one series per selected state, and
\* every series runs over the same date axis, the dates of [start, end],
\* with the number of records of that state on each date, 0 where none.
C8_PivotSeriesAligned ==
    "top_states" \in built =>
        /\ DOMAIN pivot.cols = Range(top_states)
        /\ \A i, j \in DOMAIN top_states : i # j => top_states[i] # top_states[j]
        /\ Len(pivot.date) = (IF start <= end THEN end - start + 1 ELSE 0)
        /\ \A i \in DOMAIN pivot.date : pivot.date[i] = start + i - 1
        /\ \A st \in DOMAIN pivot.cols :
              /\ Len(pivot.cols[st]) = Len(pivot.date)
              /\ \A i \in DOMAIN pivot.date :
                    pivot.cols[st][i] =
                        Cardinality(ReportedOn(fdf, pivot.date[i]) \cap Having(fdf, "state", st))

\* C8 witness: two states on different dates, with a date between start
\* and end on which neither has a record.
C8_Witness ==
    /\ "top_states" \in built
    /\ Len(top_states) = 2
    /\ Len(pivot.date) = 3
    /\ \E i, j \in DOMAIN pivot.date :
          /\ pivot.cols[top_states[1]][i] > 0 /\ pivot.cols[top_states[2]][i] = 0
          /\ pivot.cols[top_states[1]][j] = 0 /\ pivot.cols[top_states[2]][j] = 0

\* The non-missing values of a column, and the position each is first seen at.
Values(col) == Range(col) \ {NoValue}
FirstSeen(col, v) == Min({i \in DOMAIN col : col[i] = v})

\* rows lists each non-missing value of the column `field` of the view
\* exactly once, with the number of view records that have it.
CountsEachValueOnce(rows, view, field) ==
    /\ {rows[i].value : i \in DOMAIN rows} = Values(column(view, field))
    /\ \A i, j \in DOMAIN rows : i # j => rows[i].value # rows[j].value
    /\ \A i \in DOMAIN rows :
          rows[i].count = Cardinality(Having(view, field, rows[i].value))

\* Rows of equal count are in the order their values are first seen in.
TiesFirstSeen(rows, col) ==
    \A i, j \in DOMAIN rows :
        (i < j /\ rows[i].count = rows[j].count)
        => FirstSeen(col, rows[i].value) < FirstSeen(col, rows[j].value)

\* rows is n entries (all of them when there are fewer) of a counting of
\* the column, none with a count below that of a value left out.
LargestN(rows, view, field, n) ==
    LET vals == Values(column(view, field))
        kept == {rows[i].value : i \in DOMAIN rows}
    IN  /\ kept \subseteq vals
        /\ Len(rows) = (IF n < Cardinality(vals) THEN n ELSE Cardinality(vals))
        /\ \A i, j \in DOMAIN rows : i # j => rows[i].value # rows[j].value
        /\ \A i \in DOMAIN rows :
              rows[i].count = Cardinality(Having(view, field, rows[i].value))
        /\ \A v \in kept : \A u \in vals \ kept :
              Cardinality(Having(view, field, u)) <= Cardinality(Having(view, field, v))

\* C9: countBy lists each non-missing value of the view once with
\* its count, by count descending with ties in first-seen order; topN is
\* the first n entries of that sequence; an empty view gives an empty
\* sequence.
C9_CountByTiesFirstSeen ==
    /\ CountsEachValueOnce(by_state, fdf, "state")
    /\ Descending(by_state)
    /\ TiesFirstSeen(by_state, column(fdf, "state"))
    /\ LargestN(top_causes, fdf, "cause_of_death", n_causes)
    /\ Descending(top_causes)
    /\ TiesFirstSeen(top_causes, column(fdf, "cause_of_death"))
    /\ (fdf = <<>> => by_state = <<>> /\ top_causes = <<>>)

\* C10: the top-N selection has min(n, number of distinct states) states,
\* no state left out has a strictly higher count than a selected one, and
\* the table has a series for selected states only, each counting the
\* records of its own state and nothing else.
C10_TopNSelection ==
    "top_states" \in built =>
        LET vals == Values(column(fdf, "state"))
            kept == Range(top_states)
        IN  /\ kept \subseteq vals
            /\ Len(top_states) = (IF top_n < Cardinality(vals) THEN top_n ELSE Cardinality(vals))
            /\ Cardinality(kept) = Len(top_states)
            /\ \A v \in kept : \A u \in vals \ kept :
                  Cardinality(Having(fdf, "state", u)) <= Cardinality(Having(fdf, "state", v))
            /\ DOMAIN pivot.cols \subseteq kept
            /\ \A st \in DOMAIN pivot.cols :
                  SumOver(pivot.cols[st], DOMAIN pivot.cols[st])
                      = Cardinality(Having(fdf, "state", st))

\* C10 witness: more states than top_n, and a state left out that has
\* fewer records than the selected one.
C10_Witness ==
    /\ "top_states" \in built
    /\ Len(top_states) = top_n
    /\ \E u \in Values(column(fdf, "state")) \ Range(top_states) :
          Cardinality(Having(fdf, "state", u))
              < Cardinality(Having(fdf, "state", top_states[1]))

\* The ISO weeks that hold a record of the view, as <<ISO year, ISO week>>.
WeeksOf(view) ==
    {<<isocalendar(view[i].reported_date).year, isocalendar(view[i].reported_date).week>> :
        i \in DOMAIN view}

\* ISO year, "-", and the ISO week in two digits.
WeekLabel(yw) ==
    ToString(yw[1]) \o "-" \o (IF yw[2] < 10 THEN "0" \o ToString(yw[2]) ELSE ToString(yw[2]))

\* C11: the weekday matrix has one row per ISO week that holds a view
\* record, labelled ISO year "-" two-digit ISO week; every row has the seven
\* columns Mon..Sun in that order, each cell the number of view records of
\* that week and weekday (0 where there is none), and no row is all zero.
C11_WeekdayMatrix ==
    "heat_pivot" \in built =>
        /\ weekday_names = <<"Mon", "Tue", "Wed", "Thu", "Fri", "Sat", "Sun">>
        /\ Len(heat_pivot) = Cardinality(WeeksOf(fdf))
        /\ \A yw \in WeeksOf(fdf) : \E k \in DOMAIN heat_pivot :
              heat_pivot[k].year_week = WeekLabel(yw)
        /\ \A k \in DOMAIN heat_pivot :
              /\ Len(heat_pivot[k].cells) = 7
              /\ \E c \in 1..7 : heat_pivot[k].cells[c] > 0
              /\ \E yw \in WeeksOf(fdf) :
                    /\ heat_pivot[k].year_week = WeekLabel(yw)
                    /\ \A c \in 1..7 :
                          heat_pivot[k].cells[c] =
                              Cardinality({i \in DOMAIN fdf :
                                  /\ isocalendar(fdf[i].reported_date).year = yw[1]
                                  /\ isocalendar(fdf[i].reported_date).week = yw[2]
                                  /\ weekday(fdf[i].reported_date) = c - 1})

\* C11 witness: two Monday records and one Tuesday record in 2024-W01 give
\* the single row "2024-01" with Mon = 2, Tue = 1.
C11_Witness ==
    /\ "heat_pivot" \in built
    /\ Len(fdf) = 3
    /\ heat_pivot = <<[year_week |-> "2024-01", cells |-> <<2, 1, 0, 0, 0, 0, 0>>]>>

\* C13: an empty accepted-state set, and likewise an empty accepted-gender
\* set, means none selected: no record is in the view.
C13_EmptySelectionSelectsNone ==
    (selected_states = {} \/ (app = "app_1.2" /\ selected_genders = {})) => fdf = <<>>

\* C16: a record whose input has no "verified" key counts as not verified:
\* it is not in the view when verified-only is set, and the Verified KPI
\* counts the view records whose input says verified = true, no other.
C16_VerifiedDefaultsToFalse ==
    /\ \A i \in DOMAIN arr :
          (arr[i].verified = NoValue /\ verified_only)
          => \A k \in DOMAIN fdf : fdf[k].case_id # i
    /\ verified_count =
          Cardinality({k \in DOMAIN fdf : arr[fdf[k].case_id].verified = PyTrue})

\* C16 witness: only some records lack the key; with verified-only set the
\* record without the key is out of the view and the KPI counts the other.
C16_Witness ==
    /\ verified_only
    /\ Len(arr) = 2
    /\ arr[1].verified = NoValue
    /\ arr[2].verified = PyTrue
    /\ Len(fdf) = 1
    /\ fdf[1].case_id = 2
    /\ verified_count = 1

\* The labels of the months of MonthEnds.
MonthLabels == <<"2023-12", "2024-01", "2024-02", "2024-03">>

\* C20: the monthly series has one bucket per calendar month from the
\* month of the earliest view record to the month of the latest, in order,
\* labelled YYYY-MM, each with the number of view records of that month
\* (0 for a month in between without records).
C20_MonthlyBuckets ==
    "monthly" \in built =>
        LET months == {month_of(fdf[i].reported_date) : i \in DOMAIN fdf}
            lo == Min(months)
            hi == Max(months)
        IN  /\ Len(monthly) = hi - lo + 1
            /\ \A k \in DOMAIN monthly :
                  /\ monthly[k].month = MonthLabels[lo + k - 1]
                  /\ monthly[k].count =
                        Cardinality({i \in DOMAIN fdf :
                            month_of(fdf[i].reported_date) = lo + k - 1})

\* C20 witness: records in December 2023 and February 2024 only; January
\* 2024 is there with count 0.
C20_Witness ==
    /\ "monthly" \in built
    /\ monthly = <<[month |-> "2023-12", count |-> 1],
                   [month |-> "2024-01", count |-> 0],
                   [month |-> "2024-02", count |-> 2]>>

\* A request has been answered.
Answered == response.endpoint # ""

\* C12: a filter whose start date is later than its end date is rejected;
\* it is never accepted and answered with a view.
C12_InvertedRangeRejected ==
    (Answered /\ start # NoArg /\ end # NoArg /\ start > end) => response.status # 200

\* C14: when no record matches the filter the endpoint still answers with
\* an (empty) result and reports no error.
C14_EmptyResultIsNoError ==
    (Answered /\ df # <<>> /\ fdf = <<>>) => (response.status = 200 /\ response.error = "")

\* The lines of the filter other than the date line, with the parameters
\* of the request answered last.
PassesOtherLines(r) ==
    /\ selected_states # {} => r.state \in selected_states
    /\ verified_only => r.verified = PyTrue
    /\ age_range[1] # NoArg => (r.age # NaN /\ r.age >= age_range[1])
    /\ age_range[2] # NoArg => (r.age # NaN /\ r.age <= age_range[2])

C17_StoreNeverChanges == [][df # <<>> => df' = df]_vars

\* C18: a request either works on the complete normalized batch or, when
\* data.json cannot be loaded, on nothing: it is then answered with the
\* "No data available" error and no view.
C18_LoadIsAtomic ==
    [][file' = file =>
          /\ readable => df' = load_data(arr)
          /\ ~readable =>
                /\ df' = <<>>
                /\ fdf' = <<>>
                /\ response'.status = 500
                /\ response'.error = "No data available"]_vars

\* C18 witness: the export endpoint has answered a request while data.json
\* cannot be read.
C18_Witness ==
    /\ ~readable
    /\ response.endpoint = "export"
    /\ response.status = 500

\* The date span of a view in days; 0 when it holds no date.
SpanDays(view) ==
    LET dates == {view[i].reported_date : i \in DOMAIN view} \ {NaT}
    IN  IF dates = {} THEN 0 ELSE Max(dates) - Min(dates)

\* C19: the daily-rate KPI of a non-empty view is the number
\* total / max(span in days, 1): exactly in app_1.2.py, to the nearest
\* hundredth in /api/data; so for span 0 or 1 it is the total count.
C19_DailyRateIsTotalOverSpan ==
    LET total == Len(fdf)
        days  == Max({SpanDays(fdf), 1})
        diff  == daily_rate.num * days - 100 * total
    IN  /\ (app = "app_1.2" /\ "daily_rate" \in built) =>
              /\ daily_rate.den # 0
              /\ daily_rate.num * days = total * daily_rate.den
        /\ (app = "main" /\ response.endpoint = "data" /\ response.status = 200
                /\ fdf # <<>>) =>
              /\ daily_rate.den = 100
              /\ 2 * diff <= days
              /\ 2 * (0 - diff) <= days

\* C21: the Missing Dates and Missing Ages counts of the data-quality table
\* are the numbers of records of the store that are left out of the view
\* because their date, or their age, is missing.
C21_QualityCountsExcluded ==
    (app = "app_1.2" /\ "quality_df" \in built) =>
        /\ quality_df.missing_dates =
              Cardinality({i \in DOMAIN df : df[i].reported_date = NaT})
        /\ quality_df.missing_ages =
              Cardinality({i \in DOMAIN df : df[i].age = NaN})

\* The view /api/data builds for the query string of the last request.
DataView ==
    api_filter(df, query.start_date, query.end_date, query.states, query.verified_only,
               query.min_age, query.max_age, TRUE, TRUE, TRUE)

\* C22: whatever endpoint answers a query string, the record set it works
\* on is the one /api/data builds for that query string.
C22_SameViewAsData ==
    (Answered /\ df # <<>>) => fdf = DataView

\* Every widget of the sidebar holds its default value.
AtDefaults ==
    /\ start = min_date(df)
    /\ end = max_date(df)
    /\ selected_states = states(df)
    /\ ~verified_only
    /\ age_range = <<min_age(df), max_age(df)>>
    /\ selected_genders = IF app = "app_1.2" THEN genders(df) ELSE {}

\* C23: in the dashboards no record of the filtered view lacks an age,
\* whatever interval the age slider holds.
C23_NoMissingAgeInView ==
    app \in Apps => \A k \in DOMAIN fdf : fdf[k].age # NaN

\* C23 witness: with every widget at its default the view is not empty and
\* is smaller than the store, the record left out being one without an age.
C23_Witness ==
    /\ app = "app1.1"
    /\ AtDefaults
    /\ fdf # <<>>
    /\ Len(fdf) < Len(df)
    /\ \A i \in DOMAIN df :
          (\E k \in DOMAIN fdf : fdf[k] = df[i]) <=> df[i].age # NaN

\* The reported dates of the records of a view.
DatesOf(view) == {view[i].reported_date : i \in DOMAIN view} \ {NaT}

\* How many records of a view are reported on date d.
RecordsOn(view, d) == Cardinality({i \in DOMAIN view : view[i].reported_date = d})

\* C24: the series of the day-over-day KPI holds the dates that have a
\* record, so each of its counts is at least 1; the KPI is "N/A" exactly
\* when the view has fewer than two distinct dates, and otherwise compares
\* the last two dates that have records, consecutive days or not.
C24_DodOverObservedDates ==
    app = "app1.1" =>
        LET dates == DatesOf(fdf)
            last  == Max(dates)
            prev  == Max(dates \ {last})
        IN  /\ \A c \in Range(counts(groupby_date(fdf))) : c >= 1
            /\ dod_pct = None <=> Cardinality(dates) < 2
            /\ Cardinality(dates) >= 2 =>
                  dod_pct = [num |-> (RecordsOn(fdf, last) - RecordsOn(fdf, prev)) * 100,
                             den |-> RecordsOn(fdf, prev)]

\* C24 witness: the view has records on days 1 and 3 and none on day 2; the
\* KPI compares day 3 with day 1.
C24_Witness ==
    /\ app = "app1.1"
    /\ DatesOf(fdf) = {1, 3}
    /\ RecordsOn(fdf, 1) = 2
    /\ dod_pct = [num |-> (1 - 2) * 100, den |-> 2]
    /\ counts(daily) = <<2, 0, 1>>

\* The sum of the top-state series of the pivot at its i-th date.
PivotSum(i) == SumOver([st \in DOMAIN pivot.cols |-> pivot.cols[st][i]], DOMAIN pivot.cols)

\* C25: on every date of start..end the top-state series sum to at most
\* the daily count, and to exactly the daily count when the view has at
\* most top_n states and no record without a state; the daily counts sum
\* to the number of records of the view.
C25_TopStatesWithinDaily ==
    ("daily" \in built /\ "top_states" \in built) =>
        /\ Len(pivot.date) = Len(daily)
        /\ \A i \in DOMAIN daily : PivotSum(i) <= daily[i].count
        /\ (/\ Cardinality(states(fdf)) <= top_n
            /\ \A k \in DOMAIN fdf : fdf[k].state # NoValue)
              => \A i \in DOMAIN daily : PivotSum(i) = daily[i].count
        /\ Sum(counts(daily), Len(daily)) = Len(fdf)

\* C25 witness: two states have a record on the same date and top_n is 1:
\* the one top-state series holds 1 where the daily count is 2.
C25_Witness ==
    /\ "daily" \in built
    /\ top_n = 1
    /\ Len(top_states) = 1
    /\ Cardinality(states(fdf)) = 2
    /\ \E i \in DOMAIN daily : PivotSum(i) = 1 /\ daily[i].count = 2

====
